---- MODULE Spec2Model ----
(***************************************************************************)
(* Model of the parsing and grouping pipeline of src/final.py:             *)
(*   find_header_row -> read_rows -> group_boxes -> item filter of         *)
(*   draw_components_table_with_merged_sn_and_code,                        *)
(* run on one worksheet as the per-sheet body of "Generate stickers" does. *)
(*                                                                         *)
(* A Python str is a sequence of one-character strings, so that strip(),   *)
(* lower() and the substring test "in" are computed, not assumed.          *)
(* A cell value is None, a str or an int: [t, s, n].                       *)
(***************************************************************************)
EXTENDS Integers, Sequences, FiniteSets

\* ---------------------------------------------------------------- bounds
\* rows of a grid made of header-like rows
MaxHeaderRows == 3
\* rows below the header in a grid exercising read_rows
MaxDataRows == 5
\* rows below the header in a grid exercising group_boxes
MaxGroupRows == 3

\* ---------------------------------------------------------------- values
NoneV == [t |-> "none", s |-> <<>>, n |-> 0]
Str(chars) == [t |-> "str", s |-> chars, n |-> 0]
Num(k) == [t |-> "int", s |-> <<>>, n |-> k]

Min(S) == CHOOSE x \in S : \A y \in S : x <= y
Max(S) == CHOOSE x \in S : \A y \in S : x >= y

UpperChars == <<"A","B","C","D","E","F","G","H","I","J","K","L","M",
                "N","O","P","Q","R","S","T","U","V","W","X","Y","Z">>
LowerChars == <<"a","b","c","d","e","f","g","h","i","j","k","l","m",
                "n","o","p","q","r","s","t","u","v","w","x","y","z">>
DigitChars == <<"0","1","2","3","4","5","6","7","8","9">>

\* str.lower(), character by character
LowerChar(c) ==
    IF \E i \in 1..26 : UpperChars[i] = c
    THEN LowerChars[CHOOSE i \in 1..26 : UpperChars[i] = c]
    ELSE c
Lower(str) == [i \in 1..Len(str) |-> LowerChar(str[i])]

\* str.strip(): drop leading and trailing whitespace
Strip(str) ==
    LET solid == {i \in 1..Len(str) : str[i] # " "}
    IN  IF solid = {} THEN <<>> ELSE SubSeq(str, Min(solid), Max(solid))

\* str(v) for the cell values of the model (ints are 0..9)
PyStr(v) == IF v.t = "int" THEN <<DigitChars[v.n + 1]>> ELSE v.s

\* the Python test "sub in str"
Contains(sub, str) ==
    \E i \in 0..(Len(str) - Len(sub)) : SubSeq(str, i + 1, i + Len(sub)) = sub

\* _text(v): "" if v is None else str(v).strip()
Text(v) == IF v.t = "none" THEN <<>> ELSE Strip(PyStr(v))

\* v in (None, "")
NoneOrEmpty(v) == v.t = "none" \/ (v.t = "str" /\ v.s = <<>>)

\* ---------------------------------------------------------------- catalog
Keys == {"sn", "comp_ar", "comp_en", "qty"}

header_candidates ==
    [sn      |-> << <<"S",".","N">>,
                    <<"s","n">>,
                    <<"s",".","n">>,
                    <<"s","e","r","i","a","l">>,
                    <<"b","o","x"," ","s","n">> >>,
     comp_ar |-> << <<"c","o","m","p","o","n","e","n","t"," ","i","n"," ","a","r","a","b","i","c">>,
                    <<"a","r","a","b","i","c">>,
                    <<"a","r","a","b","i","c"," ","n","a","m","e">> >>,
     comp_en |-> << <<"c","o","m","p","o","n","e","n","t"," ","i","n"," ","e","n","g","l","i","s","h">>,
                    <<"c","o","m","p","o","n","e","n","t"," ","i","n"," ","e">>,
                    <<"e","n","g","l","i","s","h"," ","n","a","m","e">>,
                    <<"e","n","g","l","i","s","h">> >>,
     qty     |-> << <<"Q","u","t",".">>,
                    <<"Q","u",".">>,
                    <<"Q","t","y">>,
                    <<"Q","u","a","n","t","i","t","y">>,
                    <<"Q","T","Y">> >>]

\* the text of the sentinel identifiers (line 165)
UNKNOWN == <<"(","U","N","K","N","O","W","N",")">>

\* ---------------------------------------------------------------- rows
T_SN      == <<"S",".","N">>
T_BoxCode == <<"B","o","x"," ","c","o","d","e">>
T_CompAr  == <<"C","o","m","p","o","n","e","n","t"," ","i","n"," ","A","r","a","b","i","c">>
T_CompEn  == <<"C","o","m","p","o","n","e","n","t"," ","i","n"," ","E","n","g","l","i","s","h">>
T_Code    == <<"C","o","d","e">>
T_Qty     == <<"Q","t","y">>
T_BoxType == <<"B","o","x"," ","t","y","p","e">>
T_Notes   == <<"N","o","t","e","s">>
T_Serial  == <<"S","e","r","i","a","l">>
T_BoxSN   == <<"B","o","x"," ","S","N">>
T_Arabic  == <<"A","r","a","b","i","c">>
T_ArName  == <<"A","r","a","b","i","c"," ","n","a","m","e">>
T_English == <<"E","n","g","l","i","s","h">>
T_Quantity == <<"Q","u","a","n","t","i","t","y">>
T_Carton  == <<"C","a","r","t","o","n">>
T_Bag     == <<"B","a","g">>

\* header-like rows: four fields, three fields (no qty label), two fields, and
\* four fields found through lower-priority labels with decoys to their left
H4 == <<Str(T_SN), Str(T_BoxCode), Str(T_CompAr), Str(T_CompEn), Str(T_Code), Str(T_Qty), Str(T_BoxType)>>
H3 == <<Str(T_SN), Str(T_BoxCode), Str(T_CompAr), Str(T_CompEn), Str(T_Code), Str(T_Notes), Str(T_BoxType)>>
H2 == <<Str(T_SN), NoneV, NoneV, NoneV, NoneV, Str(T_Qty), NoneV>>
HP == <<Str(T_Serial), Str(T_BoxSN), Str(T_Arabic), Str(T_ArName), Str(T_English), Str(T_Quantity), Str(T_Qty)>>

\* rows below a header
\* a full data row
RowD == <<Num(1), Str(<<"A">>), Str(<<"x">>), Str(<<"x">>), Str(<<"c">>), Num(5), Str(T_Carton)>>
\* a blank row, mixing None and ""
RowB == <<NoneV, Str(<<>>), NoneV, Str(<<>>), NoneV, Str(<<>>), NoneV>>
\* only a box type in column G
RowT == <<NoneV, NoneV, NoneV, NoneV, NoneV, NoneV, Str(T_Carton)>>
\* only a value in column F (qty under H4, no field under H3)
RowQ == <<NoneV, NoneV, NoneV, NoneV, NoneV, Num(5), NoneV>>
\* box openers, continuation rows, a row with one identifier only, a row of
\* whitespace with a box type, a row carrying the sentinel's text
RowO1 == <<Num(1), Str(<<"A">>), Str(<<"x">>), Str(<<"x">>), Str(<<"c">>), Num(5), Str(<<>>)>>
RowO2 == <<Str(<<" ","2"," ">>), Str(<<"B">>), Str(<<"z">>), NoneV, NoneV, Num(0), Str(T_Bag)>>
RowK  == <<NoneV, NoneV, Str(<<"y">>), Str(<<" ","y">>), NoneV, Num(3), Str(T_Carton)>>
RowP  == <<Num(3), Str(<<" ">>), NoneV, NoneV, NoneV, Num(0), NoneV>>
RowW  == <<Str(<<" ">>), NoneV, NoneV, Str(<<" ">>), NoneV, Str(<<>>), Str(T_Carton)>>
RowU  == <<Str(UNKNOWN), Str(UNKNOWN), Str(<<"u">>), NoneV, NoneV, NoneV, NoneV>>

HeaderRowSet == {H4, H3, H2, HP, RowD}
ReadRowSet   == {RowD, RowB, RowT, RowQ}
GroupRowSet  == {RowO1, RowO2, RowK, RowP, RowW, RowU}

AllRows == HeaderRowSet \cup ReadRowSet \cup GroupRowSet \cup {H4, H3}
CellValues == {row[i] : row \in AllRows, i \in 1..7}
Labels == UNION {{header_candidates[k][j] : j \in 1..Len(header_candidates[k])} : k \in Keys}

\* ---------------------------------------------------------------- find_header_row
\* texts[idx] = str(c.value).strip() if c.value is not None else "";
\* lower[idx] = texts[idx].lower();
\* vlow = v.lower(); vlow and vlow in cell_text and texts[idx] != ""
LabelInCell(v, c) ==
    /\ Lower(v) # <<>>
    /\ Contains(Lower(v), Lower(Text(c)))
    /\ Text(c) # <<>>

\* LabelInCell, evaluated once for every label of the catalog and cell value
LabelInCellTable == [v \in Labels |-> [c \in CellValues |-> LabelInCell(v, c)]]

CellMatches(v, row, idx) == LabelInCellTable[v][row[idx]]

\* A plausible slip: the cells are scanned in the outer loop and the variants
\* in the inner one, so the leftmost cell matching any label wins.
FoundColCellsFirst(variants, row) ==
    LET hits == {idx \in 1..Len(row) :
                    \E j \in 1..Len(variants) : CellMatches(variants[j], row, idx)}
    IN  IF hits = {} THEN 0 ELSE Min(hits)

\* the loops over variants (outer) and cells (inner), with their two breaks;
\* 0 stands for found_col = None
FoundCol(variants, row) ==
    LET hit(j) == {idx \in 1..Len(row) : CellMatches(variants[j], row, idx)}
        js == {j \in 1..Len(variants) : hit(j) # {}}
    IN  IF js = {} THEN 0 ELSE Min(hit(Min(js)))

\* col_map of one row: the keys with a found column
RowColMap(row) ==
    LET found == [k \in Keys |-> FoundCol(header_candidates[k], row)]
    IN  [k \in {x \in Keys : found[x] # 0} |-> found[k]]

\* RowColMap, evaluated once for every row of the model's grids
ColMapOfRow == [row \in AllRows |-> RowColMap(row)]

\* match_count of one row
MatchCount(row) == Cardinality(DOMAIN ColMapOfRow[row])

\* A plausible slip: >= lets a later row with an equal count replace the best.
IsNewBestLater(match_count, best) == match_count >= best /\ match_count >= 3

\* match_count > best_match_count and match_count >= 3
IsNewBest(match_count, best) == match_count > best /\ match_count >= 3

\* ---------------------------------------------------------------- read_rows
\* ws.cell(row=r, column=c).value: a cell outside the stored grid is empty
CellValue(grid, row, column) ==
    IF row \in 1..Len(grid) /\ column \in 1..Len(grid[row])
    THEN grid[row][column] ELSE NoneV

\* row_vals of grid row `row`: four values through col_map (None when the key
\* has no column), three from the fixed columns B, E and G
RowVals(grid, row, cmap) ==
    LET mapped(k) == IF k \in DOMAIN cmap THEN CellValue(grid, row, cmap[k]) ELSE NoneV
    IN  [sn        |-> mapped("sn"),
         comp_ar   |-> mapped("comp_ar"),
         comp_en   |-> mapped("comp_en"),
         qty       |-> mapped("qty"),
         code_box  |-> CellValue(grid, row, 2),
         comp_code |-> CellValue(grid, row, 5),
         box_type  |-> CellValue(grid, row, 7)]

CoreKeys == {"sn", "code_box", "comp_ar", "comp_en", "comp_code", "qty", "box_type"}

\* A plausible slip: only the header-mapped subset decides blankness.
AllEmptyMappedOnly(row_vals) == \A k \in Keys : NoneOrEmpty(row_vals[k])

\* all_empty = all(v in (None, "") for v in core)
AllEmpty(row_vals) == \A k \in CoreKeys : NoneOrEmpty(row_vals[k])

\* ---------------------------------------------------------------- group_boxes
\* _sn(v), _code_box(v): None (here the empty text) when the trimmed text is empty;
\* "if sn and code_box" is then the test that both texts are non-empty

\* the item appended at line 167
ItemOf(rv) ==
    [comp_ar   |-> Text(rv.comp_ar),
     comp_en   |-> Text(rv.comp_en),
     comp_code |-> Text(rv.comp_code),
     qty       |-> rv.qty]

\* A plausible slip: "or", so that one identifier alone starts a box.
StartsBoxEither(rv) == Text(rv.sn) # <<>> \/ Text(rv.code_box) # <<>>

\* if sn and code_box
StartsBox(rv) == Text(rv.sn) # <<>> /\ Text(rv.code_box) # <<>>

\* ---------------------------------------------------------------- item filter
\* A plausible slip: qty tested by truthiness, so a numeric 0 counts as empty.
ItemKeptTruthy(it) ==
    \/ Strip(it.comp_ar) # <<>>
    \/ Strip(it.comp_en) # <<>>
    \/ Strip(it.comp_code) # <<>>
    \/ ~(NoneOrEmpty(it.qty) \/ (it.qty.t = "int" /\ it.qty.n = 0))

\* comp_ar or comp_en or comp_code or (qty not in (None, ""))
ItemKept(it) ==
    \/ Strip(it.comp_ar) # <<>>
    \/ Strip(it.comp_en) # <<>>
    \/ Strip(it.comp_code) # <<>>
    \/ ~NoneOrEmpty(it.qty)

\* the loop building `filtered`, from item i on
RECURSIVE FilterFrom(_, _, _)
FilterFrom(items, i, acc) ==
    IF i > Len(items) THEN acc
    ELSE LET it == items[i]
             out == [comp_ar   |-> Strip(it.comp_ar),
                     comp_en   |-> Strip(it.comp_en),
                     comp_code |-> Strip(it.comp_code),
                     qty       |-> it.qty]
         IN  FilterFrom(items, i + 1, IF ItemKept(it) THEN Append(acc, out) ELSE acc)

FilterItems(items) == FilterFrom(items, 1, <<>>)

\* ---------------------------------------------------------------- grids
SeqsUpTo(S, n) == UNION {[1..k -> S] : k \in 0..n}

\* the worksheets the model runs on
Grids ==
    (SeqsUpTo(HeaderRowSet, MaxHeaderRows) \ {<<>>})
    \cup {<<h>> \o d : h \in {H4, H3}, d \in SeqsUpTo(ReadRowSet, MaxDataRows)}
    \cup {<<H4>> \o d : d \in SeqsUpTo(GroupRowSet, MaxGroupRows)}

\* ---------------------------------------------------------------- state
VARIABLES
    ws,                \* the worksheet: a sequence of rows of cell values
    pc,                \* where the per-sheet body is
    fh_r,              \* find_header_row: the row the loop is at
    header_row_idx,    \* find_header_row: 0 is None
    best_match_count,
    best_col_map,
    header_row,        \* the caller's header_row (0 is None) and col_map
    col_map,
    r,                 \* read_rows
    empties,
    rows,
    data_rows,         \* the caller's data_rows
    gi,                \* group_boxes: the index of the row the loop is at
    objs,              \* the group dicts created so far, by reference
    groups,            \* group_boxes: the list of references
    current,           \* group_boxes: a reference, 0 is None
    boxes,             \* the caller's boxes, by value
    filtered,          \* the filtered item list of each sticker drawn so far
    msg,               \* the message written on the stickers sheet, "" for none
    wb_data,           \* the data-only workbook: the sheets as loaded, never changed
    wb_out,            \* the output workbook: its sheets (title, sheet_state) in order
    visible_titles,    \* the titles the loop at line 510 runs over
    vi,                \* the position of that loop in visible_titles
    usn_base,          \* unique_sheet_name: base, after safe_sheet_name
    usn_i,             \* unique_sheet_name: i, the counter of the while loop
    stickers_title,    \* the name unique_sheet_name returned for the current sheet
    total_stickers,
    results            \* what each finished iteration left on its stickers sheet

\* the state of one sheet's parse, and the state of the loop over the sheets
sheetvars == <<ws, fh_r, header_row_idx, best_match_count, best_col_map, header_row,
               col_map, r, empties, rows, data_rows, gi, objs, groups, current, boxes,
               filtered, msg>>
wbvars == <<wb_data, wb_out, visible_titles, vi, usn_base, usn_i, stickers_title,
            total_stickers, results>>

vars == <<sheetvars, pc, wbvars>>

EmptyMap == [k \in {} |-> 0]

Init ==
    /\ ws \in Grids
    /\ pc = "find_header_row"
    /\ fh_r = 1
    /\ header_row_idx = 0
    /\ best_match_count = -1
    /\ best_col_map = EmptyMap
    /\ header_row = 0
    /\ col_map = EmptyMap
    /\ r = 0
    /\ empties = 0
    /\ rows = <<>>
    /\ data_rows = <<>>
    /\ gi = 0
    /\ objs = <<>>
    /\ groups = <<>>
    /\ current = 0
    /\ boxes = <<>>
    /\ filtered = <<>>
    /\ msg = ""
    /\ wb_data = <<>>
    /\ wb_out = <<>>
    /\ visible_titles = <<>>
    /\ vi = 0
    /\ usn_base = <<>>
    /\ usn_i = 0
    /\ stickers_title = <<>>
    /\ total_stickers = 0
    /\ results = <<>>

\* ---------------------------------------------------------------- find_header_row
\* one iteration of the loop over ws.iter_rows (lines 84-104)
FindHeaderStep ==
    /\ pc = "find_header_row"
    /\ fh_r <= Len(ws)
    /\ LET cm == ColMapOfRow[ws[fh_r]]
           match_count == MatchCount(ws[fh_r])
       IN  IF IsNewBest(match_count, best_match_count)
           THEN /\ best_match_count' = match_count
                /\ header_row_idx' = fh_r
                /\ best_col_map' = cm
           ELSE UNCHANGED <<best_match_count, header_row_idx, best_col_map>>
    /\ fh_r' = fh_r + 1
    /\ UNCHANGED <<ws, pc, header_row, col_map, r, empties, rows, data_rows, gi, objs,
                   groups, current, boxes, filtered, msg>>
    /\ UNCHANGED wbvars

\* the return at line 105 and the caller's test of header_row (lines 522-527)
FindHeaderReturn ==
    /\ pc = "find_header_row"
    /\ fh_r > Len(ws)
    /\ header_row' = header_row_idx
    /\ col_map' = best_col_map
    /\ IF header_row_idx = 0
       THEN /\ msg' = "Header not detected"
            /\ pc' = "done"
            /\ UNCHANGED r
       ELSE /\ pc' = "read_rows"
            /\ r' = header_row_idx + 1
            /\ UNCHANGED msg
    /\ UNCHANGED <<ws, fh_r, header_row_idx, best_match_count, best_col_map, empties,
                   rows, data_rows, gi, objs, groups, current, boxes, filtered>>
    /\ UNCHANGED wbvars

\* ---------------------------------------------------------------- read_rows
\* read_rows returns `rows` to the caller, which calls group_boxes (lines 527-528)
ReadRowsReturns ==
    /\ data_rows' = rows
    /\ pc' = "group_boxes"
    /\ gi' = 1

\* if empties >= 2: break
BlankRunStops(n) == n >= 2

\* one iteration of the while loop that reaches line 138 (lines 120-139)
ReadRowsStep ==
    /\ pc = "read_rows"
    /\ r <= Len(ws)
    /\ LET row_vals == RowVals(ws, r, col_map)
           all_empty == AllEmpty(row_vals)
       IN  /\ ~(all_empty /\ BlankRunStops(empties + 1))
           /\ empties' = IF all_empty THEN empties + 1 ELSE 0
           /\ rows' = Append(rows, row_vals)
    /\ r' = r + 1
    /\ UNCHANGED <<ws, pc, fh_r, header_row_idx, best_match_count, best_col_map,
                   header_row, col_map, data_rows, gi, objs, groups, current, boxes,
                   filtered, msg>>
    /\ UNCHANGED wbvars

\* the iteration that breaks at line 135, and the return
ReadRowsBreak ==
    /\ pc = "read_rows"
    /\ r <= Len(ws)
    /\ AllEmpty(RowVals(ws, r, col_map))
    /\ BlankRunStops(empties + 1)
    /\ empties' = empties + 1
    /\ ReadRowsReturns
    /\ UNCHANGED <<ws, fh_r, header_row_idx, best_match_count, best_col_map, header_row,
                   col_map, r, rows, objs, groups, current, boxes, filtered, msg>>
    /\ UNCHANGED wbvars

\* the loop condition fails at line 120, and the return
ReadRowsExhausted ==
    /\ pc = "read_rows"
    /\ r > Len(ws)
    /\ ReadRowsReturns
    /\ UNCHANGED <<ws, fh_r, header_row_idx, best_match_count, best_col_map, header_row,
                   col_map, r, empties, rows, objs, groups, current, boxes, filtered, msg>>
    /\ UNCHANGED wbvars

\* ---------------------------------------------------------------- group_boxes
\* A plausible slip: the open dict is reused for the next box instead of a new one.
NewBoxInPlace(heap, cur, rec) ==
    IF cur = 0
    THEN [objs |-> Append(heap, rec), current |-> Len(heap) + 1]
    ELSE [objs |-> [heap EXCEPT ![cur] = rec], current |-> cur]

\* current = {...}: a new dict, which `current` then refers to
NewBox(heap, cur, rec) == [objs |-> Append(heap, rec), current |-> Len(heap) + 1]

\* A plausible slip: the sentinel is opened with empty identifiers.
SentinelBoxBlank(box_type) ==
    [sn |-> <<>>, code_box |-> <<>>, box_type |-> box_type, items |-> <<>>]

\* the dict of line 165
SentinelBox(box_type) ==
    [sn |-> UNKNOWN, code_box |-> UNKNOWN, box_type |-> box_type, items |-> <<>>]

\* A plausible slip: the box type is overwritten whatever the row carries.
BoxTypeAlways(old, box_type) == box_type

\* if box_type: current["box_type"] = box_type
BoxTypeAfter(old, box_type) == IF box_type # <<>> THEN box_type ELSE old

\* A plausible slip: a row without component fields adds no item.
ItemsAfterSkipEmpty(items, rv) ==
    IF ItemKept(ItemOf(rv)) THEN Append(items, ItemOf(rv)) ELSE items

\* current["items"].append({...})
ItemsAfter(items, rv) == Append(items, ItemOf(rv))

\* one iteration of the loop over data_rows (lines 153-169)
GroupStep ==
    /\ pc = "group_boxes"
    /\ gi <= Len(data_rows)
    /\ LET rv == data_rows[gi]
           box_type == Text(rv.box_type)
           starts == StartsBox(rv)
           \* lines 159-162
           groups1 == IF starts /\ current # 0 THEN Append(groups, current) ELSE groups
           opened == IF starts
                     THEN NewBox(objs, current,
                                 [sn |-> Text(rv.sn), code_box |-> Text(rv.code_box),
                                  box_type |-> box_type, items |-> <<>>])
                     ELSE [objs |-> objs, current |-> current]
           \* lines 164-165
           open == IF opened.current = 0
                   THEN NewBox(opened.objs, opened.current, SentinelBox(box_type))
                   ELSE opened
           c == open.current
           \* lines 167-169
           box == [open.objs[c] EXCEPT
                      !.items = ItemsAfter(@, rv),
                      !.box_type = BoxTypeAfter(@, box_type)]
       IN  /\ groups' = groups1
           /\ current' = c
           /\ objs' = [open.objs EXCEPT ![c] = box]
    /\ gi' = gi + 1
    /\ UNCHANGED <<ws, pc, fh_r, header_row_idx, best_match_count, best_col_map,
                   header_row, col_map, r, empties, rows, data_rows, boxes, filtered, msg>>
    /\ UNCHANGED wbvars

\* lines 171-173, and the caller's test of boxes (lines 528-531)
GroupReturn ==
    /\ pc = "group_boxes"
    /\ gi > Len(data_rows)
    /\ LET out == IF current # 0 THEN Append(groups, current) ELSE groups
       IN  /\ groups' = out
           /\ boxes' = [k \in 1..Len(out) |-> objs[out[k]]]
           /\ IF out = <<>>
              THEN /\ msg' = "No boxes/components found"
                   /\ pc' = "done"
              ELSE /\ pc' = "render"
                   /\ UNCHANGED msg
    /\ UNCHANGED <<ws, fh_r, header_row_idx, best_match_count, best_col_map, header_row,
                   col_map, r, empties, rows, data_rows, gi, objs, current, filtered>>
    /\ UNCHANGED wbvars

\* ---------------------------------------------------------------- rendering
\* draw_sticker for the next box of the loop at lines 538-548: the item filter
\* of draw_components_table_with_merged_sn_and_code (lines 339-347)
DrawSticker ==
    /\ pc = "render"
    /\ Len(filtered) < Len(boxes)
    /\ filtered' = Append(filtered, FilterItems(boxes[Len(filtered) + 1].items))
    /\ pc' = IF Len(filtered) + 1 = Len(boxes) THEN "done" ELSE "render"
    /\ UNCHANGED <<ws, fh_r, header_row_idx, best_match_count, best_col_map, header_row,
                   col_map, r, empties, rows, data_rows, gi, objs, groups, current,
                   boxes, msg>>
    /\ UNCHANGED wbvars

Next ==
    \/ FindHeaderStep
    \/ FindHeaderReturn
    \/ ReadRowsStep
    \/ ReadRowsBreak
    \/ ReadRowsExhausted
    \/ GroupStep
    \/ GroupReturn
    \/ DrawSticker

Spec == Init /\ [][Next]_vars

\* ================================================================ the workbook
\* ---------------------------------------------------------------- bounds
\* sheets of an input workbook
MaxSheets == 3
\* tries of unique_sheet_name that are told apart (see NextTry)
MaxTries == 3

\* ---------------------------------------------------------------- sheet names
SheetNameMax == 31

InvalidChars == {":", "\\", "/", "?", "*", "[", "]"}

\* safe_sheet_name: invalid characters become "-", the name is cut to 31 characters
safe_sheet_name(name) ==
    LET clean == [j \in 1..Len(name) |-> IF name[j] \in InvalidChars THEN "-" ELSE name[j]]
    IN  IF Len(clean) > SheetNameMax THEN SubSeq(clean, 1, SheetNameMax) ELSE clean

\* str(n) of a natural number
RECURSIVE DecStr(_)
DecStr(n) ==
    IF n < 10 THEN <<DigitChars[n + 1]>>
    ELSE DecStr(n \div 10) \o <<DigitChars[(n % 10) + 1]>>

\* cand = safe_sheet_name(f"{base} ({i})")
Cand(b, n) == safe_sheet_name(b \o <<" ", "(">> \o DecStr(n) \o <<")">>)

\* f"Stickers - {title}"
StickersBase(title) == <<"S","t","i","c","k","e","r","s"," ","-"," ">> \o title

\* wb.sheetnames
SheetNames(wb) == [k \in 1..Len(wb) |-> wb[k].title]
NameSet(wb) == {wb[k].title : k \in 1..Len(wb)}

\* wb.sheetnames.index(title), 1-based
IndexOf(names, title) == Min({k \in 1..Len(names) : names[k] = title})

\* i += 1. The counter is unbounded in the code; the model tells tries apart
\* up to MaxTries and, from there on, folds the counter back to 1 when the
\* next try yields the candidate of the first try again (the state of the
\* loop is then the one it had at i = 1)
NextTry(b, n) == IF n >= MaxTries /\ Cand(b, n + 1) = Cand(b, 1) THEN 1 ELSE n + 1

\* A plausible slip: the stickers sheet goes to the end of the workbook
\* (create_sheet without index).
InsertAtEnd(wb, title, sheet) == Append(wb, sheet)

\* wb_out.create_sheet(title=stickers_title, index=original_index + 1), with
\* original_index = wb_out.sheetnames.index(title)
InsertAfter(wb, title, sheet) ==
    LET at == IndexOf(SheetNames(wb), title)
    IN  SubSeq(wb, 1, at) \o <<sheet>> \o SubSeq(wb, at + 1, Len(wb))

\* ---------------------------------------------------------------- workbooks
T_A == <<"A">>
T_B == <<"B">>
T_H == <<"H">>
\* a title of 20 characters and one of 21 with the same first 20
T_Long  == <<"P","a","c","k","i","n","g","L","i","s","t","A","l","g","e","r","i","a","0","1">>
T_Long2 == T_Long \o <<"b">>
T_StickersA == StickersBase(T_A)

\* two boxes; one box, a blank pair and a row never read; no header row; a
\* header row and nothing below it
GridTwoBoxes == <<H4, RowO1, RowK, RowO2>>
GridOneBox   == <<H3, RowD, RowB, RowB, RowD>>
GridNoHeader == <<H2, RowD>>
GridNoRows   == <<H4>>

SheetA  == [title |-> T_A, sheet_state |-> "visible", grid |-> GridTwoBoxes]
SheetB  == [title |-> T_B, sheet_state |-> "visible", grid |-> GridNoHeader]
SheetH  == [title |-> T_H, sheet_state |-> "hidden", grid |-> GridOneBox]
SheetL1 == [title |-> T_Long, sheet_state |-> "visible", grid |-> GridNoRows]
SheetL2 == [title |-> T_Long2, sheet_state |-> "visible", grid |-> GridOneBox]
SheetSA == [title |-> T_StickersA, sheet_state |-> "visible", grid |-> GridOneBox]

SheetSet == {SheetA, SheetB, SheetH, SheetL1, SheetL2, SheetSA}

\* the input workbooks: up to MaxSheets sheets with different titles
Workbooks ==
    {w \in SeqsUpTo(SheetSet, MaxSheets) :
        /\ w # <<>>
        /\ \A a, b \in 1..Len(w) : a # b => w[a].title # w[b].title}

\* [ws.title for ws in wb_out.worksheets if ws.sheet_state == "visible"]
IsVisible(sheet) == sheet.sheet_state = "visible"
VisibleTitles(wb) == SheetNames(SelectSeq(wb, IsVisible))

\* wb_data[title]
SheetOf(wb, title) == wb[IndexOf(SheetNames(wb), title)]

\* ---------------------------------------------------------------- the loop
\* lines 491-508: both workbooks loaded from the same bytes
InitWb ==
    /\ wb_data \in Workbooks
    /\ wb_out = [k \in 1..Len(wb_data) |->
                    [title |-> wb_data[k].title, sheet_state |-> wb_data[k].sheet_state]]
    /\ visible_titles = VisibleTitles(wb_data)
    /\ vi = 1
    /\ total_stickers = 0
    /\ results = <<>>
    /\ usn_base = <<>>
    /\ usn_i = 0
    /\ stickers_title = <<>>
    /\ pc = "next_sheet"
    /\ ws = <<>>
    /\ fh_r = 1
    /\ header_row_idx = 0
    /\ best_match_count = -1
    /\ best_col_map = EmptyMap
    /\ header_row = 0
    /\ col_map = EmptyMap
    /\ r = 0
    /\ empties = 0
    /\ rows = <<>>
    /\ data_rows = <<>>
    /\ gi = 0
    /\ objs = <<>>
    /\ groups = <<>>
    /\ current = 0
    /\ boxes = <<>>
    /\ filtered = <<>>
    /\ msg = ""

\* lines 510-515 and 59-64: the next title, and unique_sheet_name up to its loop
BeginSheet ==
    /\ pc = "next_sheet"
    /\ vi <= Len(visible_titles)
    /\ LET b == safe_sheet_name(StickersBase(visible_titles[vi]))
       IN  /\ usn_base' = b
           /\ IF b \notin NameSet(wb_out)
              THEN /\ stickers_title' = b
                   /\ pc' = "create_sheet"
                   /\ UNCHANGED usn_i
              ELSE /\ usn_i' = 1
                   /\ pc' = "unique_sheet_name"
                   /\ UNCHANGED stickers_title
    /\ UNCHANGED <<wb_data, wb_out, visible_titles, vi, total_stickers, results>>
    /\ UNCHANGED sheetvars

\* lines 65-69: one iteration of the while loop of unique_sheet_name
NameTry ==
    /\ pc = "unique_sheet_name"
    /\ LET cand == Cand(usn_base, usn_i)
       IN  IF cand \notin NameSet(wb_out)
           THEN /\ stickers_title' = cand
                /\ pc' = "create_sheet"
                /\ UNCHANGED usn_i
           ELSE /\ usn_i' = NextTry(usn_base, usn_i)
                /\ UNCHANGED <<stickers_title, pc>>
    /\ UNCHANGED <<wb_data, wb_out, visible_titles, vi, usn_base, total_stickers, results>>
    /\ UNCHANGED sheetvars

\* lines 516-522: the stickers sheet is inserted and find_header_row is called
\* on the data-only sheet. The callee's locals are new at each call and the
\* caller's variables are assigned before they are read.
CreateSheet ==
    /\ pc = "create_sheet"
    /\ wb_out' = InsertAfter(wb_out, visible_titles[vi],
                             [title |-> stickers_title, sheet_state |-> "visible"])
    /\ ws' = SheetOf(wb_data, visible_titles[vi]).grid
    /\ pc' = "find_header_row"
    /\ fh_r' = 1
    /\ header_row_idx' = 0
    /\ best_match_count' = -1
    /\ best_col_map' = EmptyMap
    /\ header_row' = 0
    /\ col_map' = EmptyMap
    /\ r' = 0
    /\ empties' = 0
    /\ rows' = <<>>
    /\ data_rows' = <<>>
    /\ gi' = 0
    /\ objs' = <<>>
    /\ groups' = <<>>
    /\ current' = 0
    /\ boxes' = <<>>
    /\ filtered' = <<>>
    /\ msg' = ""
    /\ UNCHANGED <<wb_data, visible_titles, vi, usn_base, usn_i, stickers_title,
                   total_stickers, results>>

\* the stickers drawn on the sheet: each box with its filtered items
DrawnStickers ==
    [k \in 1..Len(boxes) |->
        [sn |-> boxes[k].sn, code_box |-> boxes[k].code_box,
         box_type |-> boxes[k].box_type, items |-> filtered[k]]]

\* total_stickers += len(boxes)
TotalAfter(total, n) == total + n

\* the end of an iteration: a "continue" (lines 525, 531) after a message, or
\* line 549 after the stickers are drawn
EndSheet ==
    /\ pc = "done"
    /\ results' = Append(results,
                         [title |-> visible_titles[vi],
                          stickers_title |-> stickers_title,
                          msg |-> msg,
                          stickers |-> IF msg = "" THEN DrawnStickers ELSE <<>>])
    /\ total_stickers' = IF msg = "" THEN TotalAfter(total_stickers, Len(boxes))
                         ELSE total_stickers
    /\ vi' = vi + 1
    /\ pc' = "next_sheet"
    /\ UNCHANGED <<wb_data, wb_out, visible_titles, usn_base, usn_i, stickers_title>>
    /\ UNCHANGED sheetvars

\* lines 551-560: the loop is over, the workbook is saved
SaveWorkbook ==
    /\ pc = "next_sheet"
    /\ vi > Len(visible_titles)
    /\ pc' = "saved"
    /\ UNCHANGED wbvars
    /\ UNCHANGED sheetvars

NextWb ==
    \/ BeginSheet
    \/ NameTry
    \/ CreateSheet
    \/ FindHeaderStep
    \/ FindHeaderReturn
    \/ ReadRowsStep
    \/ ReadRowsBreak
    \/ ReadRowsExhausted
    \/ GroupStep
    \/ GroupReturn
    \/ DrawSticker
    \/ EndSheet
    \/ SaveWorkbook

\* the script runs on as long as it has a next statement
SpecWb == InitWb /\ [][NextWb]_vars /\ WF_vars(NextWb)

\* ================================================================ properties
Empty(v) == v = NoneV \/ v = Str(<<>>)

\* a record of seven values that are all null or the empty string
BlankRecord(rec) == \A k \in CoreKeys : Empty(rec[k])

\* grid row i is blank on the header-mapped columns and on columns 2, 5 and 7
GridBlank(i) ==
    /\ \A k \in DOMAIN col_map : Empty(CellValue(ws, i, col_map[k]))
    /\ \A c \in {2, 5, 7} : Empty(CellValue(ws, i, c))

HeaderReturned == pc # "find_header_row"
RowsReturned == pc \in {"group_boxes", "render", "done"} /\ header_row # 0
BoxesReturned == pc \in {"render", "done"} /\ header_row # 0

\* the second row of the first pair of consecutive blank rows below the header,
\* or the row after the last one when there is no such pair
BlankPairs == {i \in (header_row + 1)..(Len(ws) - 1) : GridBlank(i) /\ GridBlank(i + 1)}
StopRow == IF BlankPairs = {} THEN Len(ws) + 1 ELSE Min(BlankPairs) + 1

\* C1: read_rows never records a blank row: no returned row has all seven
\* values null or empty, and for [data, data, blank, blank, data] below the
\* header the result is exactly the first two data rows.
C1_NoBlankRowRecorded ==
    /\ \A j \in 1..Len(rows) : ~BlankRecord(rows[j])
    /\ (RowsReturned /\ ws = <<H4, RowD, RowD, RowB, RowB, RowD>>)
           => data_rows = <<RowVals(ws, 2, col_map), RowVals(ws, 3, col_map)>>

NotBlankRecord(rec) == ~BlankRecord(rec)
RowIndexes(from, to) == [j \in 1..(to - from + 1) |-> from + j - 1]
NotGridBlank(i) == ~GridBlank(i)
\* the number of blank rows that end the grid rows (header_row+1)..(row-1)
TrailingBlanks(row) ==
    LET solid == {i \in (header_row + 1)..(row - 1) : ~GridBlank(i)}
    IN  IF solid = {} THEN row - 1 - header_row ELSE row - 1 - Max(solid)

\* C2: read_rows stops exactly at the second row of the first pair of
\* consecutive rows blank on all seven fields: nothing at or below that row is
\* returned, every non-blank row above it is returned in grid order, and the
\* blank-run counter is the length of the blank run just read, so that any
\* non-blank row (one with only a box type included) resets it to 0.
C2_StopsAtFirstBlankPair ==
    /\ pc = "read_rows" =>
          /\ r <= StopRow
          /\ empties = TrailingBlanks(r)
          /\ empties <= 1
    /\ RowsReturned =>
          LET above == SelectSeq(RowIndexes(header_row + 1, StopRow - 1), NotGridBlank)
          IN  /\ r = StopRow
              /\ SelectSeq(data_rows, NotBlankRecord)
                     = [j \in 1..Len(above) |-> RowVals(ws, above[j], col_map)]
              /\ Len(data_rows) <= StopRow - 1 - header_row

\* an isolated blank row between two rows carrying only a box type was passed,
\* and a later blank pair stopped the extraction
C2_Witness ==
    /\ RowsReturned
    /\ StopRow <= Len(ws)
    /\ \E i \in (header_row + 2)..(StopRow - 3) :
          /\ GridBlank(i)
          /\ ws[i - 1] = RowT
          /\ ws[i + 1] = RowT
          /\ Len(data_rows) >= i + 1 - header_row

\* C3: find_header_row returns the topmost row whose match_count is the
\* maximum over the grid when that maximum is at least 3, with that row's
\* column map, and (no row, empty map) when no row reaches 3.
C3_TopmostBestRow ==
    HeaderReturned =>
        LET best == Max({MatchCount(ws[i]) : i \in 1..Len(ws)})
        IN  IF best >= 3
            THEN /\ header_row = Min({i \in 1..Len(ws) : MatchCount(ws[i]) = best})
                 /\ col_map = ColMapOfRow[ws[header_row]]
            ELSE /\ header_row = 0
                 /\ col_map = EmptyMap

\* two rows tie at the best count below a row matching two fields, and the
\* upper of the two is the header
C3_Witness ==
    /\ HeaderReturned
    /\ header_row > 1
    /\ MatchCount(ws[1]) = 2
    /\ \E j \in (header_row + 1)..Len(ws) :
          /\ MatchCount(ws[j]) = MatchCount(ws[header_row])
          /\ ws[j] # ws[header_row]

\* label j of field k is contained in cell c of the header row
HeaderCellHas(k, j, c) == CellMatches(header_candidates[k][j], ws[header_row], c)

\* C4: on the chosen header row, a field is mapped exactly when one of its
\* labels matches a cell, and its column is the leftmost cell matching the
\* highest-priority label that matches any cell of the row.
C4_PriorityThenLeftmost ==
    (HeaderReturned /\ header_row # 0) =>
        \A k \in Keys :
            LET n == Len(header_candidates[k])
                cols == 1..Len(ws[header_row])
            IN  /\ k \in DOMAIN col_map <=> \E j \in 1..n, c \in cols : HeaderCellHas(k, j, c)
                /\ k \in DOMAIN col_map =>
                      \E j \in 1..n :
                          /\ col_map[k] \in cols
                          /\ HeaderCellHas(k, j, col_map[k])
                          /\ \A c \in cols : c < col_map[k] => ~HeaderCellHas(k, j, c)
                          /\ \A j2 \in 1..(j - 1), c \in cols : ~HeaderCellHas(k, j2, c)

\* a field is mapped to a column that has, to its left, a cell matching a
\* lower-priority label of the same field
C4_Witness ==
    /\ HeaderReturned
    /\ header_row # 0
    /\ \E k \in DOMAIN col_map :
          \E j \in 1..Len(header_candidates[k]), c \in 1..(col_map[k] - 1) :
              /\ HeaderCellHas(k, j, c)
              /\ ~HeaderCellHas(k, j, col_map[k])

\* a row whose trimmed sn and trimmed code_box are both non-empty
CarriesBoth(rv) == Text(rv.sn) # <<>> /\ Text(rv.code_box) # <<>>
BothRows == {i \in 1..Len(data_rows) : CarriesBoth(data_rows[i])}
FirstRowLacksOne == data_rows # <<>> /\ 1 \notin BothRows

\* the position in data_rows of the first row of output group k: one row per item
RECURSIVE StartOf(_)
StartOf(k) == IF k = 1 THEN 1 ELSE StartOf(k - 1) + Len(boxes[k - 1].items)
RowsOf(k) == StartOf(k)..(StartOf(k) + Len(boxes[k].items) - 1)

\* the component item of a row: three trimmed texts and the qty as it is
ItemBuiltFrom(it, rv) ==
    /\ it.comp_ar = Text(rv.comp_ar)
    /\ it.comp_en = Text(rv.comp_en)
    /\ it.comp_code = Text(rv.comp_code)
    /\ it.qty = rv.qty

\* C5: group_boxes starts a group exactly at each row carrying both
\* identifiers (and at the first row when it lacks one), every other row is an
\* item of the group open at it, a group opened by a row carrying both has that
\* row's identifier pair, and the number of groups is the number of such rows,
\* plus one when the sequence is non-empty and its first row lacks one.
C5_GroupsStartAtBothRows ==
    BoxesReturned =>
        /\ Len(boxes) = Cardinality(BothRows) + (IF FirstRowLacksOne THEN 1 ELSE 0)
        /\ {StartOf(k) : k \in 1..Len(boxes)}
               = BothRows \cup (IF FirstRowLacksOne THEN {1} ELSE {})
        /\ \A k \in 1..Len(boxes) :
              /\ Len(boxes[k].items) >= 1
              /\ \A i \in RowsOf(k) :
                    /\ i <= Len(data_rows)
                    /\ ItemBuiltFrom(boxes[k].items[i - StartOf(k) + 1], data_rows[i])
              /\ StartOf(k) \in BothRows =>
                    /\ boxes[k].sn = Text(data_rows[StartOf(k)].sn)
                    /\ boxes[k].code_box = Text(data_rows[StartOf(k)].code_box)

\* [(sn=1,box=A,x), (none,none,y), (sn=2,box=B,z)] gave two groups, [x,y] and [z]
C5_Witness ==
    /\ BoxesReturned
    /\ ws = <<H4, RowO1, RowK, RowO2>>
    /\ Len(boxes) = 2
    /\ Len(boxes[1].items) = 2
    /\ boxes[1].items[2].comp_ar = <<"y">>
    /\ boxes[2].sn = <<"2">>
    /\ Len(boxes[2].items) = 1

\* output group k is the sentinel: the "(UNKNOWN)" pair on a group opened by a
\* row that lacks an identifier
IsSentinel(k) ==
    /\ boxes[k].sn = UNKNOWN
    /\ boxes[k].code_box = UNKNOWN
    /\ StartOf(k) \notin BothRows

\* C6: the output has a sentinel group exactly when the row sequence is
\* non-empty and its first row lacks sn or code_box; it is then the only one
\* and the first group, and its items are the rows before the first row
\* carrying both identifiers (all rows when there is none).
C6_SentinelGroup ==
    BoxesReturned =>
        /\ (\E k \in 1..Len(boxes) : IsSentinel(k)) <=> FirstRowLacksOne
        /\ \A k \in 1..Len(boxes) : IsSentinel(k) => k = 1
        /\ \A k \in 1..Len(boxes) :
              StartOf(k) \notin BothRows => boxes[k].sn = UNKNOWN /\ boxes[k].code_box = UNKNOWN
        /\ FirstRowLacksOne =>
              LET last == IF BothRows = {} THEN Len(data_rows) ELSE Min(BothRows) - 1
              IN  /\ Len(boxes[1].items) = last
                  /\ \A i \in 1..last : ItemBuiltFrom(boxes[1].items[i], data_rows[i])

\* a sentinel group of two rows is followed by a box opened by a row with both
C6_Witness ==
    /\ BoxesReturned
    /\ Len(boxes) >= 2
    /\ IsSentinel(1)
    /\ Len(boxes[1].items) = 2
    /\ ~IsSentinel(2)

\* C7: every group's box_type is the trimmed box_type of the last of its rows
\* that has a non-empty one, and the empty string when none of its rows has.
C7_BoxTypeLastNonEmpty ==
    BoxesReturned =>
        \A k \in 1..Len(boxes) :
            LET typed == {i \in RowsOf(k) : Text(data_rows[i].box_type) # <<>>}
            IN  boxes[k].box_type =
                    IF typed = {} THEN <<>> ELSE Text(data_rows[Max(typed)].box_type)

\* a group whose rows carry box types "", "Carton", "" in that order, and a
\* group after a typed one that has no box type of its own
C7_Witness ==
    /\ BoxesReturned
    /\ \E k \in 1..Len(boxes) :
          /\ Len(boxes[k].items) = 3
          /\ Text(data_rows[StartOf(k)].box_type) = <<>>
          /\ Text(data_rows[StartOf(k) + 1].box_type) = T_Carton
          /\ Text(data_rows[StartOf(k) + 2].box_type) = <<>>
          /\ boxes[k].box_type = T_Carton

RECURSIVE ConcatItems(_, _)
ConcatItems(bs, k) == IF k = 0 THEN <<>> ELSE ConcatItems(bs, k - 1) \o bs[k].items
RECURSIVE ConcatSeqs(_, _)
ConcatSeqs(ss, k) == IF k = 0 THEN <<>> ELSE ConcatSeqs(ss, k - 1) \o ss[k]

\* an item with one of its four fields non-empty
SomeFieldNonEmpty(it) ==
    ~(/\ Strip(it.comp_ar) = <<>>
      /\ Strip(it.comp_en) = <<>>
      /\ Strip(it.comp_code) = <<>>
      /\ Empty(it.qty))

\* C8: group_boxes consumes every row exactly once, in order: the items of
\* all groups, concatenated, are as many as the rows and the i-th is built from
\* the i-th row; once every sticker is drawn, the filtered items concatenated
\* are the filtered items of the rows in row order.
C8_RowsConsumedOnceInOrder ==
    /\ BoxesReturned =>
          LET all == ConcatItems(boxes, Len(boxes))
          IN  /\ Len(all) = Len(data_rows)
              /\ \A i \in 1..Len(all) : ItemBuiltFrom(all[i], data_rows[i])
    /\ (BoxesReturned /\ pc = "done") =>
          ConcatSeqs(filtered, Len(filtered))
              = SelectSeq(ConcatItems(boxes, Len(boxes)), SomeFieldNonEmpty)

\* three rows went to two groups and the filter dropped one of their items
C8_Witness ==
    /\ BoxesReturned
    /\ pc = "done"
    /\ Len(data_rows) = 3
    /\ Len(boxes) = 2
    /\ Len(ConcatSeqs(filtered, Len(filtered))) = 2

\* C9: the item filter keeps exactly the items with one of comp_ar, comp_en,
\* comp_code (trimmed) or qty (not null, not "") non-empty, a numeric qty of 0
\* included, in their order, and filtering its result again changes nothing.
C9_FilterKeepsNonEmptyItems ==
    BoxesReturned =>
        \A k \in 1..Len(filtered) :
            /\ filtered[k] = SelectSeq(boxes[k].items, SomeFieldNonEmpty)
            /\ FilterItems(filtered[k]) = filtered[k]

\* a sticker whose box had an item with only a qty of 0, kept, and an item
\* with nothing, dropped
C9_Witness ==
    /\ BoxesReturned
    /\ \E k \in 1..Len(filtered) :
          /\ Len(filtered[k]) < Len(boxes[k].items)
          /\ \E j \in 1..Len(filtered[k]) :
                /\ filtered[k][j].qty = Num(0)
                /\ filtered[k][j].comp_ar = <<>>
                /\ filtered[k][j].comp_en = <<>>
                /\ filtered[k][j].comp_code = <<>>

\* C10: in every step of group_boxes the closed groups stay as they are: the
\* output list keeps its elements and only grows at its end, the dict of every
\* closed group is unchanged, and only the dict open after the step may differ.
C10_ClosedGroupsImmutable ==
    [][pc = "group_boxes" =>
          /\ Len(groups') >= Len(groups)
          /\ SubSeq(groups', 1, Len(groups)) = groups
          /\ \A k \in 1..Len(groups) : objs'[groups[k]] = objs[groups[k]]
          /\ \A ref \in 1..Len(objs) : ref # current' => objs'[ref] = objs[ref]
          /\ pc' # "group_boxes" => \A k \in 1..Len(groups') : boxes'[k] = objs[groups'[k]]]_vars

\* a group has been closed and a row is still to be read
C10_Witness ==
    /\ pc = "group_boxes"
    /\ Len(groups) >= 1
    /\ gi <= Len(data_rows)
    /\ Len(objs[groups[1]].items) >= 2

\* ---------------------------------------------------------------- the workbook
Item(ar, en, code, qty) == [comp_ar |-> ar, comp_en |-> en, comp_code |-> code, qty |-> qty]

\* what a sheet gets when it is the only sheet of the workbook: its message
\* and its stickers, by its grid
AloneResult(grid) ==
    CASE grid = GridTwoBoxes ->
            [msg |-> "",
             stickers |-> << [sn |-> <<"1">>, code_box |-> <<"A">>, box_type |-> T_Carton,
                              items |-> << Item(<<"x">>, <<"x">>, <<"c">>, Num(5)),
                                           Item(<<"y">>, <<"y">>, <<>>, Num(3)) >>],
                             [sn |-> <<"2">>, code_box |-> <<"B">>, box_type |-> T_Bag,
                              items |-> << Item(<<"z">>, <<>>, <<>>, Num(0)) >>] >>]
      [] grid = GridOneBox ->
            [msg |-> "",
             stickers |-> << [sn |-> <<"1">>, code_box |-> <<"A">>, box_type |-> T_Carton,
                              items |-> << Item(<<"x">>, <<"x">>, <<"c">>, NoneV) >>] >>]
      [] grid = GridNoHeader -> [msg |-> "Header not detected", stickers |-> <<>>]
      [] grid = GridNoRows -> [msg |-> "No boxes/components found", stickers |-> <<>>]

RECURSIVE StickersIn(_, _)
StickersIn(res, k) == IF k = 0 THEN 0 ELSE StickersIn(res, k - 1) + Len(res[k].stickers)

\* every finished sheet has the message and the stickers it has alone in a
\* workbook, a sheet with a message has no sticker, and total_stickers is the
\* number of stickers of the finished sheets
SheetsIsolated ==
    /\ \A k \in 1..Len(results) :
          LET alone == AloneResult(SheetOf(wb_data, results[k].title).grid)
          IN  /\ results[k].msg = alone.msg
              /\ results[k].stickers = alone.stickers
              /\ results[k].msg # "" => results[k].stickers = <<>>
    /\ pc \in {"next_sheet", "saved"} => total_stickers = StickersIn(results, Len(results))

\* C11: a sheet without a header, or with a header and no rows, gets its
\* message, no sticker and adds 0 to total_stickers, every other sheet gets the
\* stickers it has alone in a workbook, and once a sheet has got its message
\* the loop goes on through the remaining sheets to the end.
C11_FailingSheetIsolated ==
    /\ []SheetsIsolated
    /\ (\E k \in 1..Len(results) : results[k].msg # "") ~> (pc = "saved")

IsOriginalTitle(t) == t \in NameSet(wb_data)

\* C12: the output workbook keeps the original sheets in their order, every
\* visible original that has been processed is followed immediately by the
\* stickers sheet made for it, only the visible originals are processed (in
\* order, never a stickers sheet), and after the save every visible original
\* has its stickers sheet and no other sheet was added.
C12_StickersFollowOriginals ==
    /\ SelectSeq(SheetNames(wb_out), IsOriginalTitle) = SheetNames(wb_data)
    /\ Len(results) <= Len(VisibleTitles(wb_data))
    /\ \A k \in 1..Len(results) :
          LET at == IndexOf(SheetNames(wb_out), results[k].title)
          IN  /\ results[k].title = VisibleTitles(wb_data)[k]
              /\ ~IsOriginalTitle(results[k].stickers_title)
              /\ at + 1 <= Len(wb_out)
              /\ wb_out[at + 1].title = results[k].stickers_title
              /\ \A l \in 1..Len(results) :
                    l # k => results[l].stickers_title # results[k].stickers_title
    /\ pc = "saved" =>
          /\ Len(results) = Len(VisibleTitles(wb_data))
          /\ Len(wb_out) = Len(wb_data) + Len(results)

\* a saved workbook with a hidden sheet between two visible ones
C12_Witness ==
    /\ pc = "saved"
    /\ Len(wb_data) = 3
    /\ wb_data[1].sheet_state = "visible"
    /\ wb_data[2].sheet_state = "hidden"
    /\ wb_data[3].sheet_state = "visible"
    /\ Len(wb_out) = 5
    /\ wb_out[4].title = wb_data[3].title
    /\ wb_out[5].title = results[2].stickers_title

\* the name unique_sheet_name returned is new in the workbook and fits a sheet
ReturnedNameIsNew ==
    pc = "create_sheet" =>
        /\ stickers_title \notin NameSet(wb_out)
        /\ Len(stickers_title) <= SheetNameMax

\* C13: unique_sheet_name always terminates, and the name it returns is not in
\* wb.sheetnames and is at most 31 characters long.
C13_UniqueNameReturns ==
    /\ []ReturnedNameIsNew
    /\ (pc = "unique_sheet_name") ~> (pc = "create_sheet")

====
